---- MODULE Spec2Model ----
(***************************************************************************)
(* A model of bot.py (SCALP BOT PRO v3): the signal evaluation core        *)
(* (scalp_analyze), the scan orchestrator (run_scan) and the three callers *)
(* that run it on the executor and emit its results (background_scanner,   *)
(* scan_cmd, callback_handler).                                            *)
(*                                                                         *)
(* Numbers.  The program computes on Python floats; the model computes on  *)
(* integers.  Indicator values are integers, and every comparison against  *)
(* a fractional constant is cross-multiplied (x < 0.3 * y is written       *)
(* 10 * x < 3 * y).  Price levels are carried multiplied by Scale (1000),  *)
(* so that ATR_SL = 0.6 is 600 and PCT_SL / 100 = 0.005 is 5.              *)
(*                                                                         *)
(* Provider payload.  An indicator of the payload is a record: t = "num"   *)
(* with its value v, t = "none" (key present, no value: Python None), or   *)
(* t = "absent" (key missing: dict.get yields its default).                *)
(***************************************************************************)
EXTENDS Integers, Sequences, FiniteSets, TLC

VARIABLES
    clock,                  \* wall clock, seconds (time.time / datetime.utcnow)
    BTC_RSI,                \* global BTC_RSI
    BTC_TREND,              \* global BTC_TREND
    RECENT_SIGNALS,         \* global cooldown map: symbol -> [dir, time]
    SIGNALS_TODAY,          \* global daily counter
    ACTIVE_CATEGORY_COUNT,  \* global category counters
    sc,                     \* the callers: position, locals of run_scan / scalp_analyze
    cfg,                    \* what is scanned: the coins, and what the provider may answer
    log,                    \* history of the accepted signals and of the scan cycles
    ev                      \* one scalp_analyze evaluation, statement by statement

vars == <<clock, BTC_RSI, BTC_TREND, RECENT_SIGNALS, SIGNALS_TODAY,
          ACTIVE_CATEGORY_COUNT, sc, cfg, log, ev>>

(***************************************************************************)
(* Configuration (bot.py 64-124)                                           *)
(***************************************************************************)
MAX_SIGNALS_PER_SCAN == 3
MAX_SIGNALS_DAY == 15
MIN_SCORE == 75
DUPLICATE_COOLDOWN == 300
SCAN_INTERVAL == 60

Scale == 10 * 10 * 10
ATR_SL == 600
ATR_TP1 == 800
ATR_TP2 == 1500
ATR_TP3 == 2500
PCT_SL == 5
PCT_TP1 == 6
PCT_TP2 == 12
PCT_TP3 == 20

DANGEROUS_HOURS == {0, 8}

WEIGHTS == [rsi_momentum |-> 20, macd_cross |-> 20, stochastic |-> 15,
            ema_cross |-> 15, momentum |-> 5, tf_alignment |-> 15,
            tf_15m_bonus |-> 10, adx_bonus |-> 5, btc_alignment |-> 5]

(***************************************************************************)
(* Python values                                                           *)
(***************************************************************************)
Num(x) == [t |-> "num", v |-> x]
None == [t |-> "none", v |-> 0]
Absent == [t |-> "absent", v |-> 0]

\* dict.get(key, default): the default only when the key is missing
Get(raw, default) == IF raw.t = "absent" THEN Num(default) ELSE raw
\* ind.get('EMA9', ind.get('EMA10', 0))
Get2(raw, fallback, default) == IF raw.t = "absent" THEN Get(fallback, default) ELSE raw
\* Python truth value of a number-or-None
Truthy(x) == x.t = "num" /\ x.v # 0
IsNotNone(x) == x.t = "num"

Abs(x) == IF x < 0 THEN -x ELSE x
Min(a, b) == IF a < b THEN a ELSE b
Max(a, b) == IF a > b THEN a ELSE b

\* BTC_RSI when the provider's entry for it has no value (Python None)
RsiNone == 0 - 1

BuyRecs == {"STRONG_BUY", "BUY"}
SellRecs == {"STRONG_SELL", "SELL"}
Recs == {"STRONG_BUY", "BUY", "NEUTRAL", "SELL", "STRONG_SELL"}

(***************************************************************************)
(* scalp_analyze, the scoring system (bot.py 476-594).  acc is the triple  *)
(* of locals bull, bear, signals; ret says that the function has returned  *)
(* None.  signals holds the kind of each reason tag appended.  nbull and   *)
(* nbear count the voters that have added weight to bull and to bear: each *)
(* voter adds weight at most once.                                         *)
(***************************************************************************)
Acc0 == [bull |-> 0, bear |-> 0, signals |-> <<>>, ret |-> FALSE,
         nbull |-> 0, nbear |-> 0]

AddBull(a, w) == [a EXCEPT !.bull = @ + w, !.nbull = @ + 1]
AddBear(a, w) == [a EXCEPT !.bear = @ + w, !.nbear = @ + 1]
Tag(a, tag) == [a EXCEPT !.signals = Append(@, tag)]
ReturnNone(a) == [a EXCEPT !.ret = TRUE]

\* 1. RSI MOMENTUM (482-500)
RsiStep(a, rsi, rsi_1m) ==
    IF ~(Truthy(rsi) /\ Truthy(rsi_1m)) THEN a
    ELSE LET r == rsi.v
             rsi_mom == rsi_1m.v - rsi.v
         IN  IF 40 <= r /\ r <= 60
             THEN IF rsi_mom > 2 THEN Tag(AddBull(a, WEIGHTS.rsi_momentum), "RSI_UP")
                  ELSE IF rsi_mom < -2 THEN Tag(AddBear(a, WEIGHTS.rsi_momentum), "RSI_DOWN")
                  ELSE a
             ELSE IF r > 70 \/ r < 30 THEN ReturnNone(a)
             ELSE IF 60 < r /\ r <= 70 /\ rsi_mom > 0 THEN Tag(AddBull(a, 10), "RSI_HIGH")
             ELSE IF 30 <= r /\ r < 40 /\ rsi_mom < 0 THEN Tag(AddBear(a, 10), "RSI_LOW")
             ELSE a

\* a MACD voter whose fresh cross weighs twice WEIGHTS["macd_cross"]
MacdStepHeavy(a, macd, macd_sig) ==
    IF ~(IsNotNone(macd) /\ IsNotNone(macd_sig)) THEN a
    ELSE LET macd_hist == macd.v - macd_sig.v
             sn == IF macd.v # 0 THEN 3 * Abs(macd.v) ELSE 1
             sd == IF macd.v # 0 THEN 10 ELSE 1000
         IN  IF 0 < macd_hist /\ sd * macd_hist < sn
             THEN Tag(AddBull(a, 2 * WEIGHTS.macd_cross), "MACD_UP")
             ELSE IF -sn < sd * macd_hist /\ macd_hist < 0
             THEN Tag(AddBear(a, 2 * WEIGHTS.macd_cross), "MACD_DOWN")
             ELSE IF sd * macd_hist > sn THEN AddBull(a, 5)
             ELSE IF sd * macd_hist < -sn THEN AddBear(a, 5)
             ELSE a

\* 2. MACD FRESH CROSS (502-516).  macd_strength is abs(macd) * 0.3, or 0.001
\* when macd is 0: sn / sd is that strength.
MacdStep(a, macd, macd_sig) ==
    IF ~(IsNotNone(macd) /\ IsNotNone(macd_sig)) THEN a
    ELSE LET macd_hist == macd.v - macd_sig.v
             sn == IF macd.v # 0 THEN 3 * Abs(macd.v) ELSE 1
             sd == IF macd.v # 0 THEN 10 ELSE 1000
         IN  IF 0 < macd_hist /\ sd * macd_hist < sn
             THEN Tag(AddBull(a, WEIGHTS.macd_cross), "MACD_UP")
             ELSE IF -sn < sd * macd_hist /\ macd_hist < 0
             THEN Tag(AddBear(a, WEIGHTS.macd_cross), "MACD_DOWN")
             ELSE IF sd * macd_hist > sn THEN AddBull(a, 5)
             ELSE IF sd * macd_hist < -sn THEN AddBear(a, 5)
             ELSE a

\* 3. STOCHASTIC (518-528)
StochStep(a, stoch_k, stoch_d) ==
    IF ~(Truthy(stoch_k) /\ Truthy(stoch_d)) THEN a
    ELSE LET k == stoch_k.v
             d == stoch_d.v
         IN  IF k > 80 \/ k < 20 THEN ReturnNone(a)
             ELSE IF k > d /\ 30 < k /\ k < 70
             THEN Tag(AddBull(a, WEIGHTS.stochastic), "STOCH_UP")
             ELSE IF k < d /\ 30 < k /\ k < 70
             THEN Tag(AddBear(a, WEIGHTS.stochastic), "STOCH_DOWN")
             ELSE a

\* n / d < p / q and n / d > p / q for q > 0 and d # 0, on integers
RatioLess(n, d, p, q) == IF d > 0 THEN n * q < p * d ELSE n * q > p * d
RatioMore(n, d, p, q) == IF d > 0 THEN n * q > p * d ELSE n * q < p * d

\* 4. EMA9/21 CROSS (530-543).  ema_diff = (ema_9 - ema_21) / ema_21 * 100
EmaStep(a, ema_9, ema_21, close) ==
    IF ~(Truthy(ema_9) /\ Truthy(ema_21) /\ Truthy(close)) THEN a
    ELSE LET n == (ema_9.v - ema_21.v) * 100
             d == ema_21.v
         IN  IF RatioMore(n, d, 0, 1) /\ RatioLess(n, d, 2, 10)
             THEN Tag(AddBull(a, WEIGHTS.ema_cross), "EMA_UP")
             ELSE IF RatioMore(n, d, -2, 10) /\ RatioLess(n, d, 0, 1)
             THEN Tag(AddBear(a, WEIGHTS.ema_cross), "EMA_DOWN")
             ELSE IF RatioMore(n, d, 5, 10) THEN AddBull(a, 5)
             ELSE IF RatioLess(n, d, -5, 10) THEN AddBear(a, 5)
             ELSE a

\* 5. MOMENTUM (545-552)
MomStep(a, mom, ao) ==
    IF ~(Truthy(mom) /\ Truthy(ao)) THEN a
    ELSE IF mom.v > 0 /\ ao.v > 0 THEN Tag(AddBull(a, WEIGHTS.momentum), "MOM_UP")
    ELSE IF mom.v < 0 /\ ao.v < 0 THEN Tag(AddBear(a, WEIGHTS.momentum), "MOM_DOWN")
    ELSE a

\* 6. TIMEFRAME ALIGNMENT (554-564)
AlignStep(a, rec_1m, rec_5m) ==
    IF rec_1m \in BuyRecs /\ rec_5m \in BuyRecs
    THEN IF a.bull > a.bear THEN Tag(AddBull(a, WEIGHTS.tf_alignment), "TF_UP") ELSE a
    ELSE IF rec_1m \in SellRecs /\ rec_5m \in SellRecs
    THEN IF a.bear > a.bull THEN Tag(AddBear(a, WEIGHTS.tf_alignment), "TF_DOWN") ELSE a
    ELSE ReturnNone(a)

\* a faulty variant of the 15M BONUS: the bypass is open to any total
Bonus15mLoose(a, rec_15m) ==
    IF rec_15m \in BuyRecs /\ a.bull > a.bear
    THEN Tag(AddBull(a, WEIGHTS.tf_15m_bonus), "15M_UP")
    ELSE IF rec_15m \in SellRecs /\ a.bear > a.bull
    THEN Tag(AddBear(a, WEIGHTS.tf_15m_bonus), "15M_DOWN")
    ELSE Tag(a, "15M_BYPASS")

\* 7. 15M BONUS (566-578)
Bonus15mStep(a, rec_15m) ==
    LET prelim_score == Max(a.bull, a.bear)
    IN  IF rec_15m \in BuyRecs /\ a.bull > a.bear
        THEN Tag(AddBull(a, WEIGHTS.tf_15m_bonus), "15M_UP")
        ELSE IF rec_15m \in SellRecs /\ a.bear > a.bull
        THEN Tag(AddBear(a, WEIGHTS.tf_15m_bonus), "15M_DOWN")
        ELSE IF prelim_score >= 85 THEN Tag(a, "15M_BYPASS")
        ELSE ReturnNone(a)

\* 8. ADX BONUS (580-586)
AdxStep(a, adx) ==
    IF Truthy(adx) /\ adx.v > 25
    THEN Tag(IF a.bull > a.bear THEN AddBull(a, WEIGHTS.adx_bonus)
                                ELSE AddBear(a, WEIGHTS.adx_bonus), "ADX")
    ELSE a

\* 9. BTC ALIGNMENT BONUS (588-594)
BtcStep(a, btc_trend) ==
    IF a.bull > a.bear /\ btc_trend = "BULLISH"
    THEN Tag(AddBull(a, WEIGHTS.btc_alignment), "BTC_UP")
    ELSE IF a.bear > a.bull /\ btc_trend = "BEARISH"
    THEN Tag(AddBear(a, WEIGHTS.btc_alignment), "BTC_DOWN")
    ELSE a

(***************************************************************************)
(* scalp_analyze, direction, filters and levels (bot.py 596-686)           *)
(***************************************************************************)
NoSignal == [direction |-> "NONE", score |-> 0, entry |-> 0, sl |-> 0,
             tp1 |-> 0, tp2 |-> 0, tp3 |-> 0, risk |-> 0,
             rr1 |-> <<0, 1>>, rr2 |-> <<0, 1>>, rr3 |-> <<0, 1>>,
             signals |-> <<>>]

\* a direction step whose score is the winning total as it is
DirectionUncapped(a) ==
    IF a.bull >= 65 /\ a.bull > a.bear THEN <<"LONG", a.bull>>
    ELSE IF a.bear >= 65 /\ a.bear > a.bull THEN <<"SHORT", a.bear>>
    ELSE <<"NONE", 0>>

\* DIRECTION & SCORE (596-605): <<direction, score>>
Direction(a) ==
    IF a.bull >= 65 /\ a.bull > a.bear THEN <<"LONG", Min(a.bull, 100)>>
    ELSE IF a.bear >= 65 /\ a.bear > a.bull THEN <<"SHORT", Min(a.bear, 100)>>
    ELSE <<"NONE", 0>>

\* a BTC filter that drops nothing
NoBtcFilter(direction, score, btc_rsi, btc_trend) == FALSE

\* BTC RSI filter and BTC TREND filter (609-623): TRUE when the signal is dropped.
\* When BTC_RSI is None its comparison raises TypeError, which run_scan
\* catches (770): no result for the symbol either.
BtcFilter(direction, score, btc_rsi, btc_trend) ==
    \/ btc_rsi = RsiNone
    \/ direction = "LONG" /\ btc_rsi < 45
    \/ direction = "SHORT" /\ btc_rsi > 55
    \/ direction = "LONG" /\ btc_trend = "BEARISH" /\ score < 90
    \/ direction = "SHORT" /\ btc_trend = "BULLISH" /\ score < 90

\* a candle filter that drops nothing
NoCandleFilter(direction, score, close, high, low, open_price) == FALSE

\* Improved Fake Breakout Filter (625-641): TRUE when the signal is dropped.
\* body_ratio = candle_body / candle_range, candle_range being 0.0001 when
\* high <= low: rn / rd is the range.
FakeBreakoutFilter(direction, score, close, high, low, open_price) ==
    /\ Truthy(high) /\ Truthy(low) /\ Truthy(close) /\ Truthy(open_price)
    /\ LET candle_body == Abs(close.v - open_price.v)
           rn == IF high.v > low.v THEN high.v - low.v ELSE 1
           rd == IF high.v > low.v THEN 1 ELSE 10000
       IN  \/ 10 * candle_body * rd < 3 * rn /\ score < 85
           \/ /\ direction = "LONG"
              /\ 1000 * close.v >= 998 * high.v
              /\ 10 * candle_body * rd < 5 * rn
              /\ score < 85
           \/ /\ direction = "SHORT"
              /\ 1000 * close.v <= 1002 * low.v
              /\ 10 * candle_body * rd < 5 * rn
              /\ score < 85

\* a faulty variant of CALCULATE LEVELS: the ATR multiples are used whatever
\* the ATR is, without the percentage fallback
LevelsNoFallback(direction, score, signals, close, atr) ==
    LET c == close.v
        sgn == IF direction = "LONG" THEN 1 ELSE -1
        entry == Scale * c
        sl == Scale * c - sgn * atr.v * ATR_SL
        tp1 == Scale * c + sgn * atr.v * ATR_TP1
        tp2 == Scale * c + sgn * atr.v * ATR_TP2
        tp3 == Scale * c + sgn * atr.v * ATR_TP3
        risk == Abs(entry - sl)
        RR(tp) == IF risk > 0 THEN <<Abs(tp - entry), risk>> ELSE <<1, 1>>
    IN  [direction |-> direction, score |-> score, entry |-> entry, sl |-> sl,
         tp1 |-> tp1, tp2 |-> tp2, tp3 |-> tp3, risk |-> risk,
         rr1 |-> RR(tp1), rr2 |-> RR(tp2), rr3 |-> RR(tp3),
         signals |-> signals]

\* CALCULATE LEVELS (647-686), every level multiplied by Scale.  A risk/reward
\* ratio is the pair <<numerator, denominator>>; the code's fallback when
\* risk = 0 is the ratio 1.
Levels(direction, score, signals, close, atr) ==
    LET c == close.v
        useAtr == Truthy(atr) /\ atr.v > 0
        sgn == IF direction = "LONG" THEN 1 ELSE -1
        entry == Scale * c
        sl == IF useAtr THEN Scale * c - sgn * atr.v * ATR_SL
                        ELSE c * (Scale - sgn * PCT_SL)
        tp1 == IF useAtr THEN Scale * c + sgn * atr.v * ATR_TP1
                         ELSE c * (Scale + sgn * PCT_TP1)
        tp2 == IF useAtr THEN Scale * c + sgn * atr.v * ATR_TP2
                         ELSE c * (Scale + sgn * PCT_TP2)
        tp3 == IF useAtr THEN Scale * c + sgn * atr.v * ATR_TP3
                         ELSE c * (Scale + sgn * PCT_TP3)
        risk == Abs(entry - sl)
        RR(tp) == IF risk > 0 THEN <<Abs(tp - entry), risk>> ELSE <<1, 1>>
    IN  [direction |-> direction, score |-> score, entry |-> entry, sl |-> sl,
         tp1 |-> tp1, tp2 |-> tp2, tp3 |-> tp3, risk |-> risk,
         rr1 |-> RR(tp1), rr2 |-> RR(tp2), rr3 |-> RR(tp3),
         signals |-> signals]

\* From the totals to the returned dict (596-686)
Decide(a, btc_rsi, btc_trend, close, high, low, open_price, atr) ==
    LET ds == Direction(a)
        direction == ds[1]
        score == ds[2]
    IN  IF direction = "NONE" THEN NoSignal
        ELSE IF BtcFilter(direction, score, btc_rsi, btc_trend) THEN NoSignal
        ELSE IF FakeBreakoutFilter(direction, score, close, high, low, open_price)
        THEN NoSignal
        ELSE IF score < MIN_SCORE THEN NoSignal
        ELSE Levels(direction, score, a.signals, close, atr)

(***************************************************************************)
(* scalp_analyze from the fetched payload to the returned dict (429-686).  *)
(* d is the provider's answer for the three timeframes: ok_1m, ok_5m and   *)
(* ok_15m say whether get_tv returned an analysis; the other fields are    *)
(* the raw entries of tf_5m.indicators (RSI_1m: of tf_1m.indicators) and   *)
(* the RECOMMENDATION of each summary ("NEUTRAL" when missing).            *)
(***************************************************************************)
Skip(a, b) == IF a.ret THEN a ELSE b

\* scalp_analyze without its checks of the fetched data: it goes on with
\* whatever the payload holds, a close of 1 standing for a missing one
AnalyzeUnchecked(d, btc_rsi, btc_trend) ==
    LET close == IF Truthy(Get(d.close, 0)) THEN Get(d.close, 0) ELSE Num(1)
        a1 == RsiStep(Acc0, Get(d.RSI, 50), Get(d.RSI_1m, 50))
        a2 == Skip(a1, MacdStep(a1, Get(d.MACD, 0), Get(d.MACDsig, 0)))
        a3 == Skip(a2, StochStep(a2, Get(d.StochK, 50), Get(d.StochD, 50)))
        a4 == Skip(a3, EmaStep(a3, Get2(d.EMA9, d.EMA10, 0),
                               Get2(d.EMA21, d.EMA20, 0), close))
        a5 == Skip(a4, MomStep(a4, Get(d.Mom, 0), Get(d.AO, 0)))
        a6 == Skip(a5, AlignStep(a5, d.rec_1m, d.rec_5m))
        a7 == Skip(a6, Bonus15mStep(a6, d.rec_15m))
        a8 == Skip(a7, AdxStep(a7, Get(d.ADX, 20)))
        a9 == Skip(a8, BtcStep(a8, btc_trend))
    IN  IF a9.ret THEN NoSignal
        ELSE Decide(a9, btc_rsi, btc_trend, close, Get(d.high, 0),
                    Get(d.low, 0), Get(d.open, 0), Get(d.ATR, 0))

Analyze(d, btc_rsi, btc_trend) ==
    IF ~d.ok_1m \/ ~d.ok_5m THEN NoSignal
    ELSE LET close == Get(d.close, 0)
             rec_15m == IF d.ok_15m THEN d.rec_15m ELSE "NEUTRAL"
             a1 == RsiStep(Acc0, Get(d.RSI, 50), Get(d.RSI_1m, 50))
             a2 == Skip(a1, MacdStep(a1, Get(d.MACD, 0), Get(d.MACDsig, 0)))
             a3 == Skip(a2, StochStep(a2, Get(d.StochK, 50), Get(d.StochD, 50)))
             a4 == Skip(a3, EmaStep(a3, Get2(d.EMA9, d.EMA10, 0),
                                    Get2(d.EMA21, d.EMA20, 0), close))
             a5 == Skip(a4, MomStep(a4, Get(d.Mom, 0), Get(d.AO, 0)))
             a6 == Skip(a5, AlignStep(a5, d.rec_1m, d.rec_5m))
             a7 == Skip(a6, Bonus15mStep(a6, rec_15m))
             a8 == Skip(a7, AdxStep(a7, Get(d.ADX, 20)))
             a9 == Skip(a8, BtcStep(a8, btc_trend))
         IN  IF ~Truthy(close) THEN NoSignal
             ELSE IF a9.ret THEN NoSignal
             ELSE Decide(a9, btc_rsi, btc_trend, close, Get(d.high, 0),
                         Get(d.low, 0), Get(d.open, 0), Get(d.ATR, 0))

(***************************************************************************)
(* One evaluation of scalp_analyze, statement by statement: the payload    *)
(* entries are drawn where the code reads them.  ev.a holds bull, bear and *)
(* signals; ev.cur the raw entries read by the latest step; ev.res the     *)
(* returned value once ev.pc = "done".                                     *)
(***************************************************************************)
CloseRaws == {Absent, Num(0), Num(7), Num(100)}
Rsi5Raws == {Absent, None, Num(25), Num(35), Num(50), Num(65), Num(75)}
Rsi1Raws == {Absent, None, Num(0), Num(30), Num(70)}
MacdRaws == {<<Num(10), Num(9)>>, <<Num(10), Num(11)>>, <<Num(10), Num(2)>>,
             <<None, Num(0)>>, <<Absent, Absent>>}
StochRaws == {<<Num(60), Num(55)>>, <<Num(55), Num(60)>>, <<Num(85), Num(80)>>,
              <<Num(85), Num(0)>>, <<Num(15), None>>, <<Absent, Absent>>}
\* <<EMA9, EMA10, EMA21, EMA20>>
EmaRaws == {<<Num(1001), Absent, Num(1000), Absent>>,
            <<Absent, Num(999), Absent, Num(1000)>>,
            <<Num(1010), Absent, Num(1000), Absent>>,
            <<Num(990), Absent, Num(1000), Absent>>,
            <<Absent, Absent, Absent, Absent>>}
MomRaws == {<<Num(1), Num(1)>>, <<Num(-1), Num(-1)>>, <<Num(1), Num(-1)>>,
            <<None, Num(1)>>, <<Absent, Absent>>}
Rec1mVals == {"STRONG_BUY", "NEUTRAL", "SELL"}
Rec5mVals == {"BUY", "NEUTRAL", "STRONG_SELL"}
\* <<tf_15m fetched, its RECOMMENDATION>>
Rec15mVals == {<<FALSE, "NEUTRAL">>, <<TRUE, "NEUTRAL">>, <<TRUE, "BUY">>,
               <<TRUE, "STRONG_SELL">>}
AdxRaws == {Absent, None, Num(25), Num(30)}
AtrRaws == {Absent, Num(0), Num(2)}
\* <<high, low, open>> around the close c
Candles(c) == {<<Num(c + 1), Num(c - 5), Num(c - 4)>>,
               <<Num(c + 3), Num(c - 3), Num(c - 1)>>,
               <<Num(c), Num(c - 5), Num(c - 2)>>,
               <<Num(c + 5), Num(c), Num(c + 2)>>,
               <<Num(c), Num(c), Num(c - 1)>>,
               <<Num(c + 1), Num(c - 5), Absent>>}
\* <<BTC_TREND, BTC_RSI>> as update_btc_trend can leave them
BtcContexts == {<<"NEUTRAL", 50>>, <<"BULLISH", 60>>, <<"BEARISH", 40>>,
                <<"BEARISH", 50>>}

EvIdle == [pc |-> "idle", a |-> Acc0, close |-> None, rsi |-> None,
           rsi_1m |-> None, stoch_k |-> None, stoch_d |-> None,
           rec_1m |-> "NEUTRAL", rec_5m |-> "NEUTRAL", cur |-> <<>>,
           res |-> NoSignal]

\* the position after a step: the function returns None or goes on
EvGoto(e, a, next) ==
    [e EXCEPT !.a = a, !.pc = IF a.ret THEN "done" ELSE next]

EvFrame == UNCHANGED <<clock, BTC_RSI, BTC_TREND, RECENT_SIGNALS, SIGNALS_TODAY,
                       ACTIVE_CATEGORY_COUNT, sc, cfg, log>>

\* close = ind.get('close', 0); if not close: return None (443-449)
EvExtract ==
    /\ ev.pc = "extract"
    /\ \E raw \in CloseRaws :
          LET close == Get(raw, 0)
          IN  ev' = [ev EXCEPT !.close = close, !.cur = <<raw>>,
                               !.pc = IF Truthy(close) THEN "rsi" ELSE "done"]
    /\ EvFrame

EvRsi ==
    /\ ev.pc = "rsi"
    /\ \E r5 \in Rsi5Raws, r1 \in Rsi1Raws :
          LET rsi == Get(r5, 50)
              rsi_1m == Get(r1, 50)
          IN  ev' = EvGoto([ev EXCEPT !.rsi = rsi, !.rsi_1m = rsi_1m,
                                      !.cur = <<r5, r1>>],
                           RsiStep(ev.a, rsi, rsi_1m), "macd")
    /\ EvFrame

EvMacd ==
    /\ ev.pc = "macd"
    /\ \E raw \in MacdRaws :
          ev' = EvGoto([ev EXCEPT !.cur = raw],
                       MacdStep(ev.a, Get(raw[1], 0), Get(raw[2], 0)), "stoch")
    /\ EvFrame

EvStoch ==
    /\ ev.pc = "stoch"
    /\ \E raw \in StochRaws :
          LET stoch_k == Get(raw[1], 50)
              stoch_d == Get(raw[2], 50)
          IN  ev' = EvGoto([ev EXCEPT !.stoch_k = stoch_k, !.stoch_d = stoch_d,
                                      !.cur = raw],
                           StochStep(ev.a, stoch_k, stoch_d), "ema")
    /\ EvFrame

EvEma ==
    /\ ev.pc = "ema"
    /\ \E raw \in EmaRaws :
          ev' = EvGoto([ev EXCEPT !.cur = raw],
                       EmaStep(ev.a, Get2(raw[1], raw[2], 0),
                               Get2(raw[3], raw[4], 0), ev.close), "mom")
    /\ EvFrame

EvMom ==
    /\ ev.pc = "mom"
    /\ \E raw \in MomRaws :
          ev' = EvGoto([ev EXCEPT !.cur = raw],
                       MomStep(ev.a, Get(raw[1], 0), Get(raw[2], 0)), "align")
    /\ EvFrame

EvAlign ==
    /\ ev.pc = "align"
    /\ \E rec_1m \in Rec1mVals, rec_5m \in Rec5mVals :
          ev' = EvGoto([ev EXCEPT !.rec_1m = rec_1m, !.rec_5m = rec_5m,
                                  !.cur = <<>>],
                       AlignStep(ev.a, rec_1m, rec_5m), "m15")
    /\ EvFrame

EvBonus15m ==
    /\ ev.pc = "m15"
    /\ \E r \in Rec15mVals :
          LET rec_15m == IF r[1] THEN r[2] ELSE "NEUTRAL"
          IN  ev' = EvGoto([ev EXCEPT !.cur = <<rec_15m>>],
                           Bonus15mStep(ev.a, rec_15m), "adx")
    /\ EvFrame

EvAdx ==
    /\ ev.pc = "adx"
    /\ \E raw \in AdxRaws :
          ev' = EvGoto([ev EXCEPT !.cur = <<raw>>],
                       AdxStep(ev.a, Get(raw, 20)), "btc")
    /\ EvFrame

EvBtc ==
    /\ ev.pc = "btc"
    /\ ev' = EvGoto([ev EXCEPT !.cur = <<>>], BtcStep(ev.a, BTC_TREND), "direction")
    /\ EvFrame

\* lines 596-605: no direction, return None
EvDirection ==
    /\ ev.pc = "direction"
    /\ ev' = [ev EXCEPT !.cur = <<>>,
                        !.pc = IF Direction(ev.a)[1] = "NONE" THEN "done"
                                                             ELSE "filters"]
    /\ EvFrame

\* lines 607-686: the filters, the score floor and the levels
EvFilters ==
    /\ ev.pc = "filters"
    /\ \E candle \in Candles(ev.close.v), atr \in AtrRaws :
          ev' = [ev EXCEPT !.cur = <<candle[1], candle[2], candle[3], atr>>,
                           !.pc = "done",
                           !.res = Decide(ev.a, BTC_RSI, BTC_TREND, ev.close,
                                          Get(candle[1], 0), Get(candle[2], 0),
                                          Get(candle[3], 0), Get(atr, 0))]
    /\ EvFrame

NextScore ==
    \/ EvExtract \/ EvRsi \/ EvMacd \/ EvStoch \/ EvEma \/ EvMom \/ EvAlign
    \/ EvBonus15m \/ EvAdx \/ EvBtc \/ EvDirection \/ EvFilters

(***************************************************************************)
(* The scan orchestrator and its callers.                                  *)
(*                                                                         *)
(* cfg.COINS is the list run_scan iterates: a part of COINS (bot.py        *)
(* 64-76), in the order of that list.  cfg.feed is the set of payloads the *)
(* provider may answer with for a coin, cfg.btc the set of its answers for *)
(* BTC, cfg.callers who asks for scans, cfg.faults what can fail when a     *)
(* signal is emitted (persistence, the send); the clock starts at          *)
(* cfg.start and moves by one of cfg.delays at a time, for cfg.ticks half  *)
(* cooldowns.                                                              *)
(* All of them are fixed by the initial state.                             *)
(***************************************************************************)
COIN_CATEGORIES ==
    [meme |-> {"DOGE", "PEPE", "BONK", "SHIB", "WIF", "TRUMP"},
     l1 |-> {"SOL", "AVAX", "APT", "NEAR", "SUI", "SEI", "TON"},
     l2 |-> {"OP", "ARB", "MNT", "ZK"},
     defi |-> {"AAVE", "UNI", "CRV", "LDO", "PENDLE", "JUP"},
     ai |-> {"TAO", "WLD", "GRASS"}]

Categories == DOMAIN COIN_CATEGORIES

\* get_coin_category (372-377): "none" stands for Python's None
get_coin_category(symbol) ==
    IF \E c \in Categories : symbol \in COIN_CATEGORIES[c]
    THEN CHOOSE c \in Categories : symbol \in COIN_CATEGORIES[c]
    ELSE "none"

\* faulty variants of check_category_limit: every cap one too low; every cap
\* one too high
check_category_limit_strict(symbol, cnt) ==
    LET category == get_coin_category(symbol)
    IN  IF category = "none" THEN TRUE
        ELSE IF category = "meme" THEN cnt[category] < 1
        ELSE cnt[category] < 2

check_category_limit_loose(symbol, cnt) ==
    LET category == get_coin_category(symbol)
    IN  IF category = "none" THEN TRUE
        ELSE IF category = "meme" THEN cnt[category] <= 2
        ELSE cnt[category] <= 3

\* check_category_limit (379-388) on the counters cnt
check_category_limit(symbol, cnt) ==
    LET category == get_coin_category(symbol)
    IN  IF category = "none" THEN TRUE
        ELSE IF category = "meme" THEN cnt[category] < 2
        ELSE cnt[category] < 3

\* datetime.utcnow() of the clock
Hour(t) == (t \div 3600) % 24
Minute(t) == (t \div 60) % 60
Date(t) == t \div 86400

\* a check that finds no hour dangerous
never_dangerous(t) == FALSE

\* is_dangerous_hour (356-358)
is_dangerous_hour(t) == Hour(t) \in DANGEROUS_HOURS

\* a faulty variant of the duplicate check: half the window
in_cooldown_half(symbol, now, recent) ==
    /\ symbol \in DOMAIN recent
    /\ 2 * (now - recent[symbol].time) < DUPLICATE_COOLDOWN

\* the duplicate check of scalp_analyze (418-423): TRUE when the symbol is
\* still cooling down
in_cooldown(symbol, now, recent) ==
    /\ symbol \in DOMAIN recent
    /\ now - recent[symbol].time < DUPLICATE_COOLDOWN

\* the PRE-CHECKS of scalp_analyze (408-427): TRUE when it goes on to fetch
pre_checks(symbol, now, today, recent, cnt) ==
    /\ ~(today >= MAX_SIGNALS_DAY)
    /\ ~is_dangerous_hour(now)
    /\ ~in_cooldown(symbol, now, recent)
    /\ check_category_limit(symbol, cnt)

\* a cleaning that keeps every entry
keep_all(now, recent) == recent

\* "Clean old signals" of run_scan (748-752)
clean_old_signals(now, recent) ==
    LET keep == {k \in DOMAIN recent : now - recent[k].time < DUPLICATE_COOLDOWN}
    IN  [k \in keep |-> recent[k]]

\* "Reset daily counter at midnight" of run_scan (742-746): is this the window
midnight_window(t) == Hour(t) = 0 /\ Minute(t) < 2

\* sorted(signals, key=score, reverse=True), a stable sort (773-774)
RECURSIVE InsertByScore(_, _)
InsertByScore(sorted, x) ==
    IF sorted = <<>> THEN <<x>>
    ELSE IF Head(sorted).score >= x.score
         THEN <<Head(sorted)>> \o InsertByScore(Tail(sorted), x)
         ELSE <<x>> \o sorted

RECURSIVE SortByScore(_)
SortByScore(signals) ==
    IF signals = <<>> THEN <<>>
    ELSE InsertByScore(SortByScore(SubSeq(signals, 1, Len(signals) - 1)),
                       signals[Len(signals)])

\* signals[:n]
Take(signals, n) == SubSeq(signals, 1, Min(n, Len(signals)))

\* the end of run_scan (773-781)
\* the first MAX_SIGNALS_PER_SCAN signals in the order of their acceptance
limit_unsorted(signals) == Take(signals, MAX_SIGNALS_PER_SCAN)

sort_and_limit(signals) == Take(SortByScore(signals), MAX_SIGNALS_PER_SCAN)

\* update_btc_trend (318-350): b = <<btc_5m fetched, its RSI entry, the
\* RECOMMENDATION of 5m, 15m and 1h>>; the result is <<BTC_RSI, BTC_TREND>>.
\* When the RSI entry has no value the log line (345) raises, after both
\* globals were assigned; the exception is caught (347).
update_btc_trend(b, old_rsi, old_trend) ==
    IF ~b[1] THEN <<old_rsi, old_trend>>
    ELSE LET recs == <<b[3], b[4], b[5]>>
             bull_count == Cardinality({i \in 1..3 : recs[i] \in BuyRecs})
             bear_count == Cardinality({i \in 1..3 : recs[i] \in SellRecs})
         IN  <<IF Get(b[2], 50) = None THEN RsiNone ELSE Get(b[2], 50).v,
               IF bull_count >= 2 THEN "BULLISH"
               ELSE IF bear_count >= 2 THEN "BEARISH" ELSE "NEUTRAL">>

(***************************************************************************)
(* What the provider answers.  A payload is the answer of get_tv for the   *)
(* three timeframes of one symbol.                                         *)
(***************************************************************************)
P_BULL == [ok_1m |-> TRUE, ok_5m |-> TRUE, ok_15m |-> TRUE,
           close |-> Num(100), high |-> Num(101), low |-> Num(95), open |-> Num(96),
           RSI |-> Num(55), RSI_1m |-> Num(60),
           MACD |-> Num(10), MACDsig |-> Num(9),
           StochK |-> Num(60), StochD |-> Num(55),
           EMA9 |-> Absent, EMA10 |-> Num(1001), EMA21 |-> Absent, EMA20 |-> Num(1000),
           Mom |-> Num(1), AO |-> Num(1), ADX |-> Num(30), ATR |-> Num(2),
           rec_1m |-> "BUY", rec_5m |-> "STRONG_BUY", rec_15m |-> "BUY"]

P_WEAK == [P_BULL EXCEPT !.MACD = None, !.ADX = Absent, !.ATR = Absent]

P_BEAR == [ok_1m |-> TRUE, ok_5m |-> TRUE, ok_15m |-> TRUE,
           close |-> Num(100), high |-> Num(105), low |-> Num(99), open |-> Num(104),
           RSI |-> Num(45), RSI_1m |-> Num(40),
           MACD |-> Num(-10), MACDsig |-> Num(-9),
           StochK |-> Num(40), StochD |-> Num(45),
           EMA9 |-> Absent, EMA10 |-> Num(999), EMA21 |-> Absent, EMA20 |-> Num(1000),
           Mom |-> Num(-1), AO |-> Num(-1), ADX |-> Num(30), ATR |-> Num(2),
           rec_1m |-> "SELL", rec_5m |-> "STRONG_SELL", rec_15m |-> "SELL"]

P_FAIL == [P_BULL EXCEPT !.ok_5m = FALSE]
P_NO1M == [P_BULL EXCEPT !.ok_1m = FALSE]
P_NOCLOSE == [P_BULL EXCEPT !.close = Absent]
P_NOADX == [P_BULL EXCEPT !.ADX = Absent]

\* <<btc_5m fetched, RSI, RECOMMENDATION of 5m, of 15m, of 1h>>
BtcFailed == <<FALSE, Absent, "NEUTRAL", "NEUTRAL", "NEUTRAL">>
BtcBullish == <<TRUE, Num(60), "BUY", "STRONG_BUY", "NEUTRAL">>
BtcNoRsi == <<TRUE, None, "BUY", "NEUTRAL", "NEUTRAL">>
BtcBullishMid == <<TRUE, Num(50), "BUY", "BUY", "NEUTRAL">>
BtcBearish == <<TRUE, Num(50), "SELL", "STRONG_SELL", "NEUTRAL">>
BtcBearishLow == <<TRUE, Num(40), "SELL", "SELL", "SELL">>
BtcAnswers == {<<FALSE, Absent, "NEUTRAL", "NEUTRAL", "NEUTRAL">>,
               <<TRUE, Absent, "BUY", "NEUTRAL", "SELL">>,
               <<TRUE, Num(60), "BUY", "STRONG_BUY", "NEUTRAL">>}

(***************************************************************************)
(* State.  The callers: the background loop, and the handler of a manual   *)
(* scan (scan_cmd, or callback_handler with data "scan"; the application   *)
(* handles one update at a time).  Each runs run_scan on the executor, a   *)
(* thread of its own, and then emits what it returned.                     *)
(***************************************************************************)
Callers == {"background", "manual"}
Kinds(p) == IF p = "background" THEN {"loop"} ELSE {"scan_cmd", "callback"}

Symbols == {cfg.COINS[i] : i \in 1..Len(cfg.COINS)}

EmptyCount == [c \in Categories |-> 0]
NoRecent == [k \in {} |-> 0]

\* a caller at rest.  pc is its position, kind the handler, now and pruned
\* the locals of run_scan, i the index of the coin, a_now the now of
\* scalp_analyze, signals the list run_scan builds and returns, all that list
\* before it was sorted and cut (kept when cfg.track is set), j the index of the signal to emit next, wake
\* the end of the sleep.
ScIdle(wake) == [pc |-> "idle", kind |-> "none", now |-> 0, pruned |-> NoRecent,
                 i |-> 0, a_now |-> 0, signals |-> <<>>, all |-> <<>>, j |-> 0,
                 wake |-> wake]

\* the symbol a caller is evaluating
Coin(p) == cfg.COINS[sc[p].i]

\* The history.  acc: the accepted signal of each symbol, kept for as long
\* as a later acceptance can fall into its cooldown window or onto the end of
\* it; last, prev: the
\* signal accepted by the latest step and the one acc held for its symbol;
\* dayOf, dayAcc: the UTC date of the latest acceptance and the number of
\* signals accepted per category on that date; scanDate: the UTC date at
\* which the latest scan cycle started; fresh: the latest scan cycle is the
\* first one that started after the date changed; zeroed: the counters were
\* zero when it had passed the reset of run_scan; first, second: the two
\* latest evaluations of the symbol cfg.watch, each with what it was given
\* (the payload, the BTC context) and what it found in the shared state.
\* fail: when the latest step of a caller was an evaluation in which the
\* provider's answer was unusable (no 1m or 5m analysis, no close), the
\* caller, the symbol and its index, and the shared state and the caller's
\* list as they were before that evaluation (kept when cfg.track is set).
NoAcc == [symbol |-> "none", dir |-> "NONE", time |-> 0]
NoFail == [symbol |-> "none", p |-> "none", i |-> 0, recent |-> NoRecent,
           cnt |-> EmptyCount, today |-> 0, signals |-> <<>>]
NoEval == [time |-> -1, d |-> P_FAIL, btc |-> <<50, "NEUTRAL">>, today |-> 0,
           cnt |-> 0, cool |-> FALSE, res |-> NoSignal]
ClearFail(l) == [l EXCEPT !.fail = NoFail]
\* the BTC refresh of the latest scan: what the provider answered for BTC and
\* the BTC context before it
NoCtx == [b |-> BtcFailed, before |-> <<50, "NEUTRAL">>]
LogInit == [acc |-> NoRecent, last |-> NoAcc, prev |-> NoAcc,
            dayOf |-> 0, dayAcc |-> EmptyCount, scanDate |-> 0, fresh |-> FALSE,
            zeroed |-> TRUE, first |-> NoEval, second |-> NoEval, fail |-> NoFail,
            ctx |-> NoCtx]

\* ADMIN_CHAT_ID is configured (bot.py 53)
ADMIN_CHAT_ID == TRUE

\* time: the clock moves in steps of half a cooldown
TickSeconds == DUPLICATE_COOLDOWN \div 2
RaceTicks == 2
SeqTicks == 6
DayTicks == 10
CatTicks == 2
TwiceTicks == 4
CycleTicks == 2
LiveTicks == 2
BtcTicks == 3
NightTicks == 6
\* 23:50:00 of day 0, and 12:00:00
BeforeMidnight == 23 * 3600 + 50 * 60
Noon == 12 * 3600

InitWith(c) ==
    /\ clock = c.start
    /\ BTC_RSI = 50
    /\ BTC_TREND = "NEUTRAL"
    /\ RECENT_SIGNALS = NoRecent
    /\ SIGNALS_TODAY = 0
    /\ ACTIVE_CATEGORY_COUNT = EmptyCount
    /\ sc = [p \in Callers |-> ScIdle(0)]
    /\ cfg = c
    /\ log = LogInit
    /\ ev = EvIdle

\* an accepted signal of the history expires once no later acceptance can
\* fall into its window or onto the end of it: the window is over and nobody
\* is evaluating the symbol
Expire(acc, t) ==
    LET keep == {k \in DOMAIN acc :
                    \/ t - acc[k].time <= DUPLICATE_COOLDOWN
                    \/ \E p \in Callers : sc[p].pc = "fetch" /\ Coin(p) = k}
    IN  [k \in keep |-> acc[k]]

\* time passes, by half a cooldown or more: while the callers sleep, wait for
\* the provider or for Telegram (the statements in between take no such time)
Tick ==
    /\ \A p \in Callers : sc[p].pc \in {"idle", "failed", "fetch", "emit", "hung"}
    /\ \E d \in cfg.delays :
          /\ clock + d <= cfg.start + cfg.ticks * TickSeconds
          /\ clock' = clock + d
          /\ log' = [log EXCEPT !.acc = Expire(@, clock + d),
                                !.last = NoAcc, !.prev = NoAcc]
    /\ UNCHANGED <<BTC_RSI, BTC_TREND, RECENT_SIGNALS, SIGNALS_TODAY,
                   ACTIVE_CATEGORY_COUNT, sc, cfg, ev>>

\* the history after update_btc_trend got the answer b (kept when cfg.track
\* is set)
LogCtx(b) ==
    IF cfg.track THEN [b |-> b, before |-> <<BTC_RSI, BTC_TREND>>] ELSE NoCtx

\* run_scan up to the dict comprehension of "Clean old signals" (737-752):
\* the new dict is built, and not yet assigned
StartScan(p) ==
    /\ sc[p].pc \in {"idle", "failed"}
    /\ p \in cfg.callers
    /\ clock >= sc[p].wake
    /\ \E kind \in Kinds(p), b \in cfg.btc :
          LET btc == update_btc_trend(b, BTC_RSI, BTC_TREND)
          IN  /\ BTC_RSI' = btc[1]
              /\ BTC_TREND' = btc[2]
              /\ sc' = [sc EXCEPT ![p] =
                          [ScIdle(0) EXCEPT
                              !.pc = "prune", !.kind = kind, !.now = clock,
                              !.wake = sc[p].wake,
                              !.pruned = clean_old_signals(clock, RECENT_SIGNALS)]]
              /\ log' = [log EXCEPT
                            !.scanDate = Date(clock),
                            !.fresh = Date(clock) > log.scanDate,
                            !.zeroed = midnight_window(clock) \/
                                         (SIGNALS_TODAY = 0 /\
                                          ACTIVE_CATEGORY_COUNT = EmptyCount),
                            !.last = NoAcc, !.prev = NoAcc, !.fail = NoFail,
                            !.ctx = LogCtx(b)]
    /\ IF midnight_window(clock)
       THEN SIGNALS_TODAY' = 0 /\ ACTIVE_CATEGORY_COUNT' = EmptyCount
       ELSE UNCHANGED <<SIGNALS_TODAY, ACTIVE_CATEGORY_COUNT>>
    /\ UNCHANGED <<clock, RECENT_SIGNALS, cfg, ev>>

\* a loop that an exception ends: it is left in its except branch and never
\* wakes up
RestForGood(p, s, raised) ==
    IF p # "background" THEN ScIdle(0)
    ELSE IF raised
    THEN [ScIdle(0) EXCEPT !.pc = "failed", !.wake = clock + 7 * 86400]
    ELSE ScIdle(clock + SCAN_INTERVAL)

\* the caller back at rest: the loop sleeps SCAN_INTERVAL (1156); after an
\* exception it is in its except branch and sleeps 30 s (1158-1160), s being
\* the locals it was left with (they are not read again, and are kept when
\* cfg.track is set); a handler is over either way
Rest(p, s, raised) ==
    IF p # "background" THEN ScIdle(0)
    ELSE IF raised
    THEN [(IF cfg.track THEN s ELSE ScIdle(0)) EXCEPT !.pc = "failed",
                                                      !.wake = clock + 30]
    ELSE ScIdle(clock + SCAN_INTERVAL)

\* run_scan: the assignment of the cleaned dict, the dangerous hour check and
\* the log line, which raises TypeError when BTC_RSI is None (749, 754-761)
FinishPrune(p) ==
    /\ sc[p].pc = "prune"
    /\ RECENT_SIGNALS' = sc[p].pruned
    /\ LET s == [sc[p] EXCEPT !.pruned = NoRecent, !.i = 1, !.signals = <<>>,
                              !.all = <<>>, !.j = 1]
       IN  sc' = [sc EXCEPT ![p] =
                    IF is_dangerous_hour(clock) THEN [s EXCEPT !.pc = "emit"]
                    ELSE IF BTC_RSI = RsiNone THEN Rest(p, [s EXCEPT !.i = 0], TRUE)
                    ELSE [s EXCEPT !.pc = "coin"]]
    /\ log' = ClearFail(log)
    /\ UNCHANGED <<clock, BTC_RSI, BTC_TREND, SIGNALS_TODAY, ACTIVE_CATEGORY_COUNT,
                   cfg, ev>>

\* a scan that goes on as if the evaluation had returned None, whatever it
\* returned
AfterCoinForgets(s, signals) ==
    IF s.i < Len(cfg.COINS)
    THEN [s EXCEPT !.pc = "coin", !.i = @ + 1, !.a_now = 0]
    ELSE [s EXCEPT !.pc = "emit", !.i = 0, !.a_now = 0, !.j = 1,
                   !.signals = sort_and_limit(s.signals),
                   !.all = IF cfg.track THEN s.signals ELSE <<>>]

\* the caller's state after scalp_analyze(COINS[i]) returned: the next coin,
\* or the end of run_scan (773-781) and the return to the caller
AfterCoin(s, signals) ==
    IF s.i < Len(cfg.COINS)
    THEN [s EXCEPT !.pc = "coin", !.i = @ + 1, !.a_now = 0, !.signals = signals]
    ELSE [s EXCEPT !.pc = "emit", !.i = 0, !.a_now = 0, !.j = 1,
                   !.signals = sort_and_limit(signals),
                   !.all = IF cfg.track THEN signals ELSE <<>>]

\* the history after an evaluation of symbol that started at now, would be
\* (or was) answered d by the provider and returned res
LogEval(l, symbol, now, d, res) ==
    IF symbol # cfg.watch THEN l
    ELSE [l EXCEPT !.first = l.second,
                   !.second = [time |-> now, d |-> d, btc |-> <<BTC_RSI, BTC_TREND>>,
                               today |-> SIGNALS_TODAY,
                               cnt |-> IF get_coin_category(symbol) = "none" THEN 0
                                       ELSE ACTIVE_CATEGORY_COUNT[get_coin_category(symbol)],
                               cool |-> /\ symbol \in DOMAIN RECENT_SIGNALS
                                        /\ now - RECENT_SIGNALS[symbol].time
                                              < DUPLICATE_COOLDOWN,
                               res |-> res]]

\* what the history keeps of the evaluation by p of a coin for which the
\* provider answered d: the state before it, when the data could not be had
LogFail(p, d) ==
    IF cfg.track /\ (~d.ok_1m \/ ~d.ok_5m \/ d.close \in {Absent, None, Num(0)})
    THEN [symbol |-> Coin(p), p |-> p, i |-> sc[p].i,
          recent |-> RECENT_SIGNALS, cnt |-> ACTIVE_CATEGORY_COUNT,
          today |-> SIGNALS_TODAY, signals |-> sc[p].signals]
    ELSE NoFail

\* scalp_analyze(COINS[i]), the pre-checks (408-427)
AnalyzeCheck(p) ==
    /\ sc[p].pc = "coin"
    /\ IF pre_checks(Coin(p), clock, SIGNALS_TODAY, RECENT_SIGNALS,
                     ACTIVE_CATEGORY_COUNT)
       THEN /\ sc' = [sc EXCEPT ![p] = [@ EXCEPT !.pc = "fetch", !.a_now = clock]]
            /\ log' = ClearFail(log)
       ELSE /\ sc' = [sc EXCEPT ![p] = AfterCoin(@, @.signals)]
            /\ \E d \in cfg.feed :
                  log' = LogEval(ClearFail(log), Coin(p), clock, d, NoSignal)
    /\ UNCHANGED <<clock, BTC_RSI, BTC_TREND, RECENT_SIGNALS, SIGNALS_TODAY,
                   ACTIVE_CATEGORY_COUNT, cfg, ev>>

\* the history after scalp_analyze accepted a signal
LogAccept(l, symbol, direction, now) ==
    LET category == get_coin_category(symbol)
        base == IF Date(now) = l.dayOf THEN l.dayAcc ELSE EmptyCount
        entry == [symbol |-> symbol, dir |-> direction, time |-> now]
    IN  [l EXCEPT !.acc = [k \in DOMAIN l.acc \cup {symbol} |->
                              IF k = symbol THEN entry ELSE l.acc[k]],
                  !.last = entry,
                  !.prev = IF symbol \in DOMAIN l.acc THEN l.acc[symbol] ELSE NoAcc,
                  !.dayOf = Date(now),
                  !.dayAcc = IF category = "none" THEN base
                             ELSE [base EXCEPT ![category] = @ + 1]]

\* "RECORD" of scalp_analyze (688-695): the cooldown map and the category
\* counters after a signal is accepted
record_signal(recent, symbol, direction, now) ==
    [k \in DOMAIN recent \cup {symbol} |->
        IF k = symbol THEN [dir |-> direction, time |-> now] ELSE recent[k]]

count_category(cnt, symbol) ==
    LET category == get_coin_category(symbol)
    IN  IF category = "none" THEN cnt ELSE [cnt EXCEPT ![category] = @ + 1]

\* scalp_analyze(COINS[i]) from the data fetch to the return (429-727).  Of
\* the returned dict the caller's list keeps the symbol, the direction, the
\* score and, when cfg.track is set, the number of reasons in its 'signals'.
\* get_tv passes no timeout to TA_Handler (307-313): a provider call that
\* never answers (cfg.faults has "hang") leaves the scan in the call for good,
\* at pc "hung".
AnalyzeFinish(p) ==
    /\ sc[p].pc = "fetch"
    /\ \E fault \in {"none"} \cup (cfg.faults \cap {"hang"}) :
          IF fault = "hang"
          THEN /\ sc' = [sc EXCEPT ![p] = [@ EXCEPT !.pc = "hung"]]
               /\ log' = ClearFail(log)
               /\ UNCHANGED <<RECENT_SIGNALS, ACTIVE_CATEGORY_COUNT>>
          ELSE \E d \in cfg.feed :
                 \E res \in {Analyze(d, BTC_RSI, BTC_TREND)} :
                    IF res = NoSignal
                    THEN /\ sc' = [sc EXCEPT ![p] = AfterCoin(@, @.signals)]
                         /\ log' = [LogEval([log EXCEPT !.last = NoAcc, !.prev = NoAcc],
                                            Coin(p), sc[p].a_now, d, res)
                                       EXCEPT !.fail = LogFail(p, d)]
                         /\ UNCHANGED <<RECENT_SIGNALS, ACTIVE_CATEGORY_COUNT>>
                    ELSE /\ RECENT_SIGNALS' =
                               record_signal(RECENT_SIGNALS, Coin(p), res.direction,
                                             sc[p].a_now)
                         /\ ACTIVE_CATEGORY_COUNT' =
                               count_category(ACTIVE_CATEGORY_COUNT, Coin(p))
                         /\ log' = [LogEval(LogAccept(log, Coin(p), res.direction,
                                                      sc[p].a_now),
                                            Coin(p), sc[p].a_now, d, res)
                                       EXCEPT !.fail = LogFail(p, d)]
                         /\ sc' = [sc EXCEPT ![p] =
                                     AfterCoin(@, Append(@.signals,
                                         [symbol |-> Coin(p), direction |-> res.direction,
                                          score |-> res.score,
                                          conf |-> IF cfg.track THEN Len(res.signals)
                                                                ELSE 0]))]
    /\ UNCHANGED <<clock, BTC_RSI, BTC_TREND, SIGNALS_TODAY, cfg, ev>>

\* how many of the returned signals the caller emits (989, 1054, 1143-1144)
EmitLimit(kind) ==
    IF kind = "callback" THEN 2
    ELSE IF kind = "scan_cmd" THEN 3
    ELSE IF ADMIN_CHAT_ID THEN MAX_SIGNALS_PER_SCAN ELSE 0

\* the caller emits one signal: save_signal_to_db, SIGNALS_TODAY += 1, send
\* (990-998, 1055-1062, 1145-1154).  save_signal_to_db may raise, before the
\* counter is incremented, and the send may raise, after it.  j - 1 is the
\* number of increments the caller has made.
Emit(p) ==
    /\ sc[p].pc = "emit"
    /\ sc[p].j <= Min(Len(sc[p].signals), EmitLimit(sc[p].kind))
    /\ \E fault \in {"none"} \cup cfg.faults :
          /\ SIGNALS_TODAY' = IF fault = "persist" THEN SIGNALS_TODAY
                                                   ELSE SIGNALS_TODAY + 1
          /\ sc' = [sc EXCEPT ![p] =
                      IF fault = "persist" THEN Rest(p, @, TRUE)
                      ELSE IF fault = "send" THEN Rest(p, [@ EXCEPT !.j = @ + 1], TRUE)
                      ELSE [@ EXCEPT !.j = @ + 1]]
    /\ log' = ClearFail(log)
    /\ UNCHANGED <<clock, BTC_RSI, BTC_TREND, RECENT_SIGNALS,
                   ACTIVE_CATEGORY_COUNT, cfg, ev>>

\* nothing (more) to emit: the handler returns, the loop sleeps
EndCycle(p) ==
    /\ sc[p].pc = "emit"
    /\ sc[p].j > Min(Len(sc[p].signals), EmitLimit(sc[p].kind))
    /\ sc' = [sc EXCEPT ![p] = Rest(p, @, FALSE)]
    /\ log' = ClearFail(log)
    /\ UNCHANGED <<clock, BTC_RSI, BTC_TREND, RECENT_SIGNALS, SIGNALS_TODAY,
                   ACTIVE_CATEGORY_COUNT, cfg, ev>>

\* no caller other than p is inside run_scan
NoOtherScan(p) == \A q \in Callers \ {p} : sc[q].pc \in {"idle", "failed", "emit"}

\* a caller inside a cycle goes on
Run(p) ==
    \/ FinishPrune(p) \/ AnalyzeCheck(p) \/ AnalyzeFinish(p)
    \/ Emit(p) \/ EndCycle(p)

Step(p) ==
    \/ StartScan(p) \/ FinishPrune(p) \/ AnalyzeCheck(p) \/ AnalyzeFinish(p)
    \/ Emit(p) \/ EndCycle(p)

\* the program: the scans of the two callers may overlap
Next == Tick \/ \E p \in Callers : Step(p)

\* the program when no scan starts while another one runs
NextSeq ==
    \/ Tick
    \/ \E p \in Callers : NoOtherScan(p) /\ StartScan(p)
    \/ \E p \in Callers :
          \/ FinishPrune(p) \/ AnalyzeCheck(p) \/ AnalyzeFinish(p)
          \/ Emit(p) \/ EndCycle(p)

\* the scanned coins, the provider's answers, the steps of the clock and the
\* callers of each specification
CfgRace == [COINS |-> <<"DOGE", "PEPE">>, feed |-> {P_BULL, P_FAIL},
            btc |-> {<<FALSE, Absent, "NEUTRAL", "NEUTRAL", "NEUTRAL">>},
            delays |-> {TickSeconds, 2 * TickSeconds}, callers |-> Callers,
            start |-> Noon, ticks |-> RaceTicks, watch |-> "none",
            faults |-> {"send"}, track |-> FALSE]
CfgSeq == [COINS |-> <<"DOGE", "PEPE", "SHIB">>, feed |-> {P_BULL, P_FAIL},
           btc |-> BtcAnswers,
           delays |-> {TickSeconds, 2 * TickSeconds}, callers |-> Callers,
           start |-> BeforeMidnight, ticks |-> SeqTicks, watch |-> "none",
            faults |-> {"send"}, track |-> FALSE]
CfgDay == [COINS |-> <<"BTC", "ETH", "XRP", "LTC">>, feed |-> {P_BULL, P_FAIL},
           btc |-> {<<FALSE, Absent, "NEUTRAL", "NEUTRAL", "NEUTRAL">>},
           delays |-> {2 * TickSeconds}, callers |-> {"background"},
           start |-> Noon, ticks |-> DayTicks, watch |-> "none",
            faults |-> {"send"}, track |-> FALSE]
CfgCat == [COINS |-> <<"BTC", "OP", "ARB", "DOGE", "PEPE", "SHIB", "MNT", "ZK">>,
           feed |-> {P_BULL, P_FAIL},
           btc |-> {<<FALSE, Absent, "NEUTRAL", "NEUTRAL", "NEUTRAL">>},
           delays |-> {2 * TickSeconds}, callers |-> {"background"},
           start |-> Noon, ticks |-> CatTicks, watch |-> "none",
            faults |-> {"send"}, track |-> FALSE]
CfgTwice == [COINS |-> <<"DOGE", "PEPE">>, feed |-> {P_BULL, P_WEAK, P_FAIL},
             btc |-> BtcAnswers,
             delays |-> {TickSeconds, 2 * TickSeconds}, callers |-> {"background"},
             start |-> Noon, ticks |-> TwiceTicks, watch |-> "DOGE",
             faults |-> {"send"}, track |-> FALSE]

CfgCycle == [COINS |-> <<"BTC", "ETH", "XRP", "DOGE">>,
             feed |-> {P_BULL, P_NOADX, P_WEAK, P_FAIL, P_NO1M, P_NOCLOSE},
             btc |-> {BtcBullish, BtcNoRsi},
             delays |-> {2 * TickSeconds}, callers |-> {"background"},
             start |-> Noon, ticks |-> CycleTicks, watch |-> "none",
             faults |-> {"send"}, track |-> TRUE]
CfgLive == [COINS |-> <<"BTC">>, feed |-> {P_BULL, P_FAIL},
            btc |-> {BtcFailed, BtcNoRsi},
            delays |-> {TickSeconds}, callers |-> Callers,
            start |-> Noon, ticks |-> LiveTicks, watch |-> "none",
            faults |-> {"persist", "send", "hang"}, track |-> TRUE]

CfgBtc == [COINS |-> <<"BTC", "ETH">>, feed |-> {P_BULL, P_WEAK, P_BEAR},
           btc |-> {BtcFailed, BtcBullish, BtcBullishMid, BtcBearish, BtcBearishLow},
           delays |-> {2 * TickSeconds}, callers |-> {"background"},
           start |-> Noon, ticks |-> BtcTicks, watch |-> "none",
           faults |-> {"send"}, track |-> TRUE]

CfgNight == [COINS |-> <<"DOGE", "PEPE">>, feed |-> {P_BULL, P_FAIL},
             btc |-> {BtcFailed, BtcBullish, BtcBearish},
             delays |-> {TickSeconds, 2 * TickSeconds}, callers |-> {"background"},
             start |-> BeforeMidnight, ticks |-> NightTicks, watch |-> "none",
             faults |-> {"send"}, track |-> TRUE]

Init == InitWith(CfgRace)
Spec == Init /\ [][Next]_vars

InitSeq == InitWith(CfgSeq)
SpecSeq == InitSeq /\ [][NextSeq]_vars

InitDay == InitWith(CfgDay)
SpecDay == InitDay /\ [][NextSeq]_vars

InitCat == InitWith(CfgCat)
SpecCat == InitCat /\ [][NextSeq]_vars

InitTwice == InitWith(CfgTwice)
SpecTwice == InitTwice /\ [][NextSeq]_vars

InitBtc == InitWith(CfgBtc)
SpecBtc == InitBtc /\ [][NextSeq]_vars

InitNight == InitWith(CfgNight)
SpecNight == InitNight /\ [][NextSeq]_vars

InitCycle == InitWith(CfgCycle)
SpecCycle == InitCycle /\ [][NextSeq]_vars

\* the program with its scheduling: time passes again and again, a thread or
\* a task that can go on does, and the loop starts a cycle once its sleep is
\* over; nothing makes the user ask for a scan
InitLive == InitWith(CfgLive)
LiveEnd == CfgLive.start + CfgLive.ticks * TickSeconds
SpecLive ==
    /\ InitLive
    /\ [][Next]_vars
    /\ SF_vars(Tick)
    /\ WF_vars(StartScan("background"))
    /\ WF_vars(Run("background"))
    /\ WF_vars(Run("manual"))

\* one evaluation of scalp_analyze on any payload, in any BTC context
InitScore ==
    /\ clock = Noon
    /\ \E b \in BtcContexts : BTC_TREND = b[1] /\ BTC_RSI = b[2]
    /\ RECENT_SIGNALS = NoRecent
    /\ SIGNALS_TODAY = 0
    /\ ACTIVE_CATEGORY_COUNT = EmptyCount
    /\ sc = [p \in Callers |-> ScIdle(0)]
    /\ cfg = CfgSeq
    /\ log = LogInit
    /\ ev = [EvIdle EXCEPT !.pc = "extract"]
SpecScore == InitScore /\ [][NextScore]_vars

(***************************************************************************)
(* The properties                                                          *)
(***************************************************************************)

\* C1: when scan cycles do not overlap, two signals accepted for the same
\* symbol in the same direction are at least DUPLICATE_COOLDOWN apart
\* (checked under SpecSeq).
C1_CooldownBetweenAccepted ==
    (/\ log.last.symbol # "none"
     /\ log.prev.symbol = log.last.symbol
     /\ log.prev.dir = log.last.dir)
    => log.last.time - log.prev.time >= DUPLICATE_COOLDOWN

\* a symbol is accepted again, in the same direction, once its cooldown is over
C1_Witness ==
    /\ log.last.symbol # "none"
    /\ log.prev.symbol = log.last.symbol
    /\ log.prev.dir = log.last.dir
    /\ log.last.time - log.prev.time >= DUPLICATE_COOLDOWN

\* C2: the daily count of emitted signals, SIGNALS_TODAY, never exceeds
\* MAX_SIGNALS_DAY (checked under SpecDay, all of whose scans are on one day).
C2_DailyMaximum == SIGNALS_TODAY <= MAX_SIGNALS_DAY

\* C3: when scan cycles do not overlap, the signals accepted on one UTC day
\* for the symbols of a category number at most 2 for meme and 3 for any
\* other category, and no count stops a symbol without a category (checked
\* under SpecCat, where every symbol may qualify).
C3_CategoryCap ==
    /\ \A c \in Categories : log.dayAcc[c] <= IF c = "meme" THEN 2 ELSE 3
    /\ \A s \in Symbols :
          get_coin_category(s) = "none"
          => check_category_limit(s, ACTIVE_CATEGORY_COUNT)

\* both categories are at their cap, an uncategorised symbol was accepted as
\* well, and a later cycle has gone through all the symbols again
C3_Witness ==
    /\ log.dayAcc["meme"] = 2
    /\ log.dayAcc["l2"] = 3
    /\ "BTC" \in DOMAIN log.acc
    /\ clock > cfg.start
    /\ sc["background"].pc = "emit"
    /\ sc["background"].now > cfg.start

\* C4: an evaluation whose 5m RSI is above 70 or below 30 returns no signal,
\* whatever the other inputs are (checked under SpecScore).
C4_RsiExtremeVeto ==
    (/\ ev.pc = "done"
     /\ ev.rsi.t = "num"
     /\ (ev.rsi.v > 70 \/ ev.rsi.v < 30))
    => ev.res = NoSignal

\* C5: a returned signal has a score of at least MIN_SCORE, a winning total
\* of at least 65 that strictly exceeds the other total, and none of the
\* vetoes holds: RSI or Stochastic in an extreme zone, the 1m and 5m
\* recommendations not aligned with the direction, a doji or fake breakout
\* (checked under SpecScore; the pre-checks come before the evaluation).
C5_SignalOnlyIf ==
    (ev.pc = "done" /\ ev.res # NoSignal)
    => LET long == ev.res.direction = "LONG"
           win == IF long THEN ev.a.bull ELSE ev.a.bear
           lose == IF long THEN ev.a.bear ELSE ev.a.bull
       IN  /\ ev.res.score >= MIN_SCORE
           /\ win >= 65
           /\ win > lose
           /\ ~(ev.rsi.t = "num" /\ (ev.rsi.v > 70 \/ ev.rsi.v < 30))
           /\ ~(ev.stoch_k.t = "num" /\ (ev.stoch_k.v > 80 \/ ev.stoch_k.v < 20))
           /\ IF long THEN ev.rec_1m \in BuyRecs /\ ev.rec_5m \in BuyRecs
                      ELSE ev.rec_1m \in SellRecs /\ ev.rec_5m \in SellRecs
           /\ ~FakeBreakoutFilter(ev.res.direction, ev.res.score, ev.close,
                                  Get(ev.cur[1], 0), Get(ev.cur[2], 0),
                                  Get(ev.cur[3], 0))

\* C6: a returned signal with close > 0 has its levels in order (LONG: stop <
\* entry < tp1 < tp2 < tp3, SHORT the reverse), a stop distance that is not
\* zero, and risk/reward ratios with 1 < rr1 < rr2 < rr3, with the ATR
\* multiples and with the percentage fallback (checked under SpecScore).
C6_LevelsOrdered ==
    (ev.pc = "done" /\ ev.res # NoSignal /\ ev.close.v > 0)
    => LET r == ev.res
       IN  /\ IF r.direction = "LONG"
              THEN r.sl < r.entry /\ r.entry < r.tp1 /\ r.tp1 < r.tp2 /\ r.tp2 < r.tp3
              ELSE r.sl > r.entry /\ r.entry > r.tp1 /\ r.tp1 > r.tp2 /\ r.tp2 > r.tp3
           /\ r.risk > 0
           /\ r.rr1[2] > 0 /\ r.rr2[2] > 0 /\ r.rr3[2] > 0
           /\ r.rr1[1] > r.rr1[2]
           /\ r.rr1[1] * r.rr2[2] < r.rr2[1] * r.rr1[2]
           /\ r.rr2[1] * r.rr3[2] < r.rr3[1] * r.rr2[2]

\* a SHORT is returned on the percentage fallback, the ATR being 0
C6_Witness ==
    /\ ev.pc = "done"
    /\ ev.res # NoSignal
    /\ ev.res.direction = "SHORT"
    /\ ev.close.v > 0
    /\ ev.cur[4] = Num(0)

\* C7: a scan cycle that is the first to start after the UTC date changed
\* has SIGNALS_TODAY = 0 and the category counters empty once it is past the
\* reset of run_scan, at whatever time of day it starts (checked under
\* SpecSeq).
C7_ResetOnDateChange == log.fresh => log.zeroed

C9_EqualTotalsNoSide ==
    LET Same(b) == b.bull = ev.a.bull /\ b.bear = ev.a.bear
    IN  ev.a.bull = ev.a.bear
        => /\ ev.pc = "align"
              => \A rec_1m \in Recs, rec_5m \in Recs :
                    Same(AlignStep(ev.a, rec_1m, rec_5m))
           /\ ev.pc = "m15" => \A rec_15m \in Recs : Same(Bonus15mStep(ev.a, rec_15m))
           /\ ev.pc = "adx" => \A raw \in AdxRaws : Same(AdxStep(ev.a, Get(raw, 20)))
           /\ ev.pc = "btc"
              => \A t \in {"BULLISH", "BEARISH", "NEUTRAL"} : Same(BtcStep(ev.a, t))
           /\ ev.pc \in {"direction", "filters"} => Direction(ev.a)[1] = "NONE"
           /\ ev.pc = "done" => ev.res = NoSignal

\* equal totals that are not zero reach the 15m step, after recommendations
\* for 1m and 5m that agree
C9_Witness ==
    /\ ev.pc = "m15"
    /\ ev.a.bull = ev.a.bear
    /\ ev.a.bull > 0
    /\ ev.rec_1m \in BuyRecs
    /\ ev.rec_5m \in BuyRecs

\* C10: when a manual scan and the background scan overlap, a symbol is not
\* accepted twice within DUPLICATE_COOLDOWN, and the cooldown entry of an
\* accepted signal stays in RECENT_SIGNALS for as long as its window lasts
\* (checked under Spec).
C10_NoRaceOnCooldown ==
    /\ (log.last.symbol # "none" /\ log.prev.symbol = log.last.symbol)
       => \/ log.last.time - log.prev.time >= DUPLICATE_COOLDOWN
          \/ log.prev.time - log.last.time >= DUPLICATE_COOLDOWN
    /\ \A k \in DOMAIN log.acc :
          clock - log.acc[k].time < DUPLICATE_COOLDOWN
          => k \in DOMAIN RECENT_SIGNALS

\* C11: when a manual scan and the background scan overlap, no category gets
\* more accepted signals on one UTC day than its cap (2 for meme, 3
\* otherwise), the category counters stay within the caps, and the daily
\* counter stays within MAX_SIGNALS_DAY (checked under Spec).
C11_CapsUnderOverlap ==
    /\ \A c \in Categories :
          LET cap == IF c = "meme" THEN 2 ELSE 3
          IN  log.dayAcc[c] <= cap /\ ACTIVE_CATEGORY_COUNT[c] <= cap
    /\ SIGNALS_TODAY <= MAX_SIGNALS_DAY

C13_LoopStartsAgain ==
    (sc["background"].pc = "failed" /\ clock + TickSeconds <= LiveEnd)
        ~> (sc["background"].pc = "prune")

\* the loop in its except branch after an exception of the emission, a manual
\* scan being under way
C13_Witness ==
    /\ sc["background"].pc = "failed"
    /\ sc["background"].signals # <<>>
    /\ sc["manual"].pc = "fetch"
    /\ clock + TickSeconds <= LiveEnd

\* the signals accepted in the cycle the loop was in, in the order of their
\* acceptance, have their cooldown entry and are counted in their category
BookkeepingKept(accepted) ==
    /\ \A k \in DOMAIN accepted :
          /\ accepted[k].symbol \in DOMAIN RECENT_SIGNALS
          /\ RECENT_SIGNALS[accepted[k].symbol].dir = accepted[k].direction
    /\ \A c \in Categories :
          ACTIVE_CATEGORY_COUNT[c] >=
              Cardinality({k \in DOMAIN accepted :
                              get_coin_category(accepted[k].symbol) = c})

\* C14: a send that fails takes back nothing.  Once the send of a signal
\* raised (the loop is in its except branch with at least one increment made,
\* sc.j - 1 being the number of increments of the cycle), every signal accepted
\* in that cycle still has its cooldown entry and its category count, and the
\* daily counter has counted every one of them (checked under SpecCycle).
C14_SendFailureKeepsBookkeeping ==
    (sc["background"].pc = "failed" /\ sc["background"].j >= 2) =>
        /\ BookkeepingKept(sc["background"].all)
        /\ sc["background"].j - 1 >= Len(sc["background"].all)

\* C15: at the end of a cycle (nothing is left to emit) the daily counter has
\* grown by the number of signals accepted in the cycle, sc.j - 1 being the
\* number of increments of the cycle (checked under SpecCycle).
C15_CounterGrowsByAccepted ==
    \A p \in CfgCycle.callers :
        (sc[p].pc = "emit"
            /\ sc[p].j > Min(Len(sc[p].signals), EmitLimit(sc[p].kind))) =>
        sc[p].j - 1 = Len(sc[p].all)

\* C16: an evaluation whose Stochastic %K is above 80 or below 20 returns no
\* signal, whatever the other inputs are, %D being 0 or None included
\* (checked under SpecScore).
C16_StochExtremeVeto ==
    (/\ ev.pc = "done"
     /\ ev.stoch_k.t = "num"
     /\ (ev.stoch_k.v > 80 \/ ev.stoch_k.v < 20))
    => ev.res = NoSignal

\* C17: an indicator that is missing from the payload, or is there as None,
\* abstains.  For the first voter: when the 5m RSI or the 1m RSI is
\* unavailable, the totals and the reasons after the RSI step are those
\* before it, all empty (checked under SpecScore).
C17_UnavailableAbstains ==
    (/\ ev.pc = "macd"
     /\ (ev.cur[1] \in {Absent, None} \/ ev.cur[2] \in {Absent, None}))
    => ev.a = Acc0

\* the number of voters that added weight to the side of the returned signal
WinningVoters ==
    IF ev.res.direction = "LONG" THEN ev.a.nbull ELSE ev.a.nbear

\* C18: every returned signal has at least 5 voters that added weight to its
\* side: with the weights of WEIGHTS no 4 voters reach MIN_SCORE (checked
\* under SpecScore).
C18_MinimumConfluence ==
    (ev.pc = "done" /\ ev.res # NoSignal) => WinningVoters >= 5

\* a signal returned with exactly 5 voters on its side
C18_Witness ==
    /\ ev.pc = "done"
    /\ ev.res # NoSignal
    /\ WinningVoters = 5

\* the symbols of a list of signals
SymbolsOf(signals) == {signals[k].symbol : k \in DOMAIN signals}

\* C19: the list run_scan returns (sc.signals, while the caller emits) has at
\* most MAX_SIGNALS_PER_SCAN signals, all accepted in the cycle (sc.all), as
\* many as the limit allows, in non-increasing order of score, and no
\* accepted signal left out has a higher score than a returned one (checked
\* under SpecCycle).
C19_TopByScore ==
    \A p \in CfgCycle.callers :
        sc[p].pc = "emit" =>
            LET ret == sc[p].signals
                acc == sc[p].all
            IN  /\ Len(ret) = Min(Len(acc), MAX_SIGNALS_PER_SCAN)
                /\ \A k \in DOMAIN ret : \E m \in DOMAIN acc : ret[k] = acc[m]
                /\ Cardinality(SymbolsOf(ret)) = Len(ret)
                /\ \A k \in 1..(Len(ret) - 1) : ret[k].score >= ret[k + 1].score
                /\ \A m \in DOMAIN acc :
                      acc[m].symbol \notin SymbolsOf(ret) =>
                          \A k \in DOMAIN ret : acc[m].score <= ret[k].score

\* four signals were accepted, and the first accepted, of a lower score than
\* the last, is the one left out
C19_Witness ==
    LET ret == sc["background"].signals
        acc == sc["background"].all
    IN  /\ sc["background"].pc = "emit"
        /\ Len(acc) = 4
        /\ acc[1].score < acc[4].score
        /\ acc[1].symbol \notin SymbolsOf(ret)

\* C20: of two signals of equal score accepted in a cycle, run_scan puts the
\* one with more reasons (conf, the confluence count) first, and keeps it
\* when only one of them is returned (checked under SpecCycle).
C20_TieBreakByConfluence ==
    \A p \in CfgCycle.callers :
        sc[p].pc = "emit" =>
            LET ret == sc[p].signals
                acc == sc[p].all
            IN  /\ \A k \in 1..(Len(ret) - 1) :
                      ret[k].score = ret[k + 1].score =>
                          ret[k].conf >= ret[k + 1].conf
                /\ \A m \in DOMAIN acc :
                      acc[m].symbol \notin SymbolsOf(ret) =>
                          \A k \in DOMAIN ret :
                              acc[m].score = ret[k].score =>
                                  acc[m].conf <= ret[k].conf

\* C21: a scan cycle that has started completes, even when a provider call
\* never returns: the background loop that started run_scan is later back at
\* rest, asleep after the cycle or in its except branch (checked under
\* SpecLive, where a provider call may never answer).
C21_CycleCompletes ==
    (sc["background"].pc = "prune")
        ~> (sc["background"].pc \in {"idle", "failed"})

\* C22: nothing is accepted in the dangerous hours.  No cooldown entry bears
\* the time of an evaluation that started in hour 0 or 8 UTC; no evaluation
\* that started in such an hour gets to its data fetch; and a scan that
\* started in such an hour evaluates no coin and returns the empty list
\* (checked under SpecSeq, which crosses midnight).
C22_NothingInDangerousHours ==
    /\ \A k \in DOMAIN RECENT_SIGNALS :
          Hour(RECENT_SIGNALS[k].time) \notin DANGEROUS_HOURS
    /\ \A p \in Callers :
          /\ sc[p].pc = "fetch" => Hour(sc[p].a_now) \notin DANGEROUS_HOURS
          /\ sc[p].pc \in {"coin", "fetch"} => Hour(sc[p].now) \notin DANGEROUS_HOURS
          /\ (sc[p].pc = "emit" /\ Hour(sc[p].now) \in DANGEROUS_HOURS)
                => sc[p].signals = <<>>

\* a scan that started after midnight has returned the empty list, a signal
\* accepted before midnight being still in its cooldown
C22_Witness ==
    /\ sc["background"].pc = "emit"
    /\ Hour(sc["background"].now) \in DANGEROUS_HOURS
    /\ sc["background"].signals = <<>>
    /\ RECENT_SIGNALS # NoRecent

\* the accumulated weight of the side of the returned signal
WinningTotal ==
    IF ev.res.direction = "LONG" THEN ev.a.bull ELSE ev.a.bear

\* C23: the score of a returned signal is the accumulated weight of its side
\* capped at 100, an integer from MIN_SCORE to 100 (checked under SpecScore).
C23_ScoreCapped ==
    (ev.pc = "done" /\ ev.res # NoSignal) =>
        /\ ev.res.score = Min(WinningTotal, 100)
        /\ ev.res.score \in MIN_SCORE..100

\* a signal returned with a total above 100
C23_Witness ==
    /\ ev.pc = "done"
    /\ ev.res # NoSignal
    /\ WinningTotal > 100
    /\ ev.res.score = 100

\* the candle of a returned signal: ev.cur holds the raw high, low and open
\* read by the filters, ev.close the close
CandleKnown ==
    /\ ev.pc = "done"
    /\ ev.res # NoSignal
    /\ \A k \in 1..3 : ev.cur[k].t = "num" /\ ev.cur[k].v > 0
CandleBody == Abs(ev.close.v - ev.cur[3].v)
CandleRange == ev.cur[1].v - ev.cur[2].v
CloseNearExtreme ==
    \/ ev.res.direction = "LONG" /\ 1000 * ev.close.v >= 998 * ev.cur[1].v
    \/ ev.res.direction = "SHORT" /\ 1000 * ev.close.v <= 1002 * ev.cur[2].v

\* C24: a returned signal whose candle (high, low, open and close known) has
\* a body below 0.3 of its range has a score of at least 85, and so has one
\* that closes within 0.2% of the high (LONG) or of the low (SHORT) with a
\* body below 0.5 of the range (checked under SpecScore).
C24_DojiNeedsHighScore ==
    CandleKnown =>
        /\ 10 * CandleBody < 3 * CandleRange => ev.res.score >= 85
        /\ (CloseNearExtreme /\ 10 * CandleBody < 5 * CandleRange)
              => ev.res.score >= 85

\* a signal returned on a doji candle
C24_Witness ==
    /\ CandleKnown
    /\ 10 * CandleBody < 3 * CandleRange
    /\ ev.res.score >= 85

\* C25: a returned LONG has its 1m and 5m recommendations both BUY or
\* STRONG_BUY, a returned SHORT both SELL or STRONG_SELL (checked under
\* SpecScore).
C25_DirectionFollowsAlignment ==
    (ev.pc = "done" /\ ev.res # NoSignal) =>
        /\ ev.res.direction = "LONG"
              => ev.rec_1m \in BuyRecs /\ ev.rec_5m \in BuyRecs
        /\ ev.res.direction = "SHORT"
              => ev.rec_1m \in SellRecs /\ ev.rec_5m \in SellRecs

\* a step in which p's evaluation of a coin ends without a signal: the scan
\* moves on from the coin and its list of results has not grown (with fewer
\* results than MAX_SIGNALS_PER_SCAN the limit cuts nothing)
NoSignalStep(p) ==
    /\ sc[p].pc \in {"coin", "fetch"}
    /\ sc'[p].pc \in {"coin", "emit"}
    /\ sc'[p].i # sc[p].i
    /\ Len(sc[p].signals) < MAX_SIGNALS_PER_SCAN
    /\ Len(sc'[p].signals) = Len(sc[p].signals)

\* C26: an evaluation that returns no signal (a pre-check, a veto, the
\* threshold, a filter, missing data) leaves the cooldown map, the category
\* counters and the daily counter as they were (checked under SpecSeq).
C26_NoSignalNoEffect ==
    [][\A p \in Callers :
          NoSignalStep(p) =>
              UNCHANGED <<RECENT_SIGNALS, ACTIVE_CATEGORY_COUNT, SIGNALS_TODAY>>]_vars

\* the first coin of a scan got no signal while signals of an earlier scan
\* are in their cooldown and counted
C26_Witness ==
    /\ sc["background"].pc = "coin"
    /\ sc["background"].i = 2
    /\ sc["background"].signals = <<>>
    /\ RECENT_SIGNALS # NoRecent
    /\ SIGNALS_TODAY > 0
    /\ \E c \in Categories : ACTIVE_CATEGORY_COUNT[c] > 0

\* C27: only the signals that are emitted consume cooldown and category
\* budget.  At the end of a cycle (nothing is left to emit) every symbol
\* accepted in the cycle (sc.all: it got its cooldown entry and its category
\* count at acceptance) is among the signals the caller emitted, the first
\* sc.j - 1 of the returned list (checked under SpecCycle).
C27_BudgetOnlyForEmitted ==
    \A p \in CfgCycle.callers :
        (sc[p].pc = "emit"
            /\ sc[p].j > Min(Len(sc[p].signals), EmitLimit(sc[p].kind))) =>
        SymbolsOf(sc[p].all) \subseteq
            {sc[p].signals[k].symbol : k \in 1..(sc[p].j - 1)}

\* the signals accepted so far in the cycle the loop is in
AcceptedInCycle ==
    IF sc["background"].pc = "emit" THEN sc["background"].all
                                    ELSE sc["background"].signals

\* C28: the BTC filter.  While a cycle runs, the BTC context is the one its
\* refresh left: the RSI and the trend of at least two of the three
\* recommendations when BTC's 5m analysis was fetched, the previous context
\* when it was not.  Every signal accepted in the cycle passes the filter
\* under that context: no LONG with BTC_RSI below 45, no SHORT with BTC_RSI
\* above 55, and a score of at least 90 for a LONG in a BEARISH or a SHORT in
\* a BULLISH trend (checked under SpecBtc).
C28_BtcFilter ==
    sc["background"].pc \in {"prune", "coin", "fetch", "emit"} =>
        /\ IF log.ctx.b[1]
           THEN /\ BTC_RSI = log.ctx.b[2].v
                /\ BTC_TREND = "BULLISH" <=>
                      Cardinality({k \in 3..5 : log.ctx.b[k] \in BuyRecs}) >= 2
                /\ BTC_TREND = "BEARISH" <=>
                      /\ Cardinality({k \in 3..5 : log.ctx.b[k] \in BuyRecs}) < 2
                      /\ Cardinality({k \in 3..5 : log.ctx.b[k] \in SellRecs}) >= 2
           ELSE <<BTC_RSI, BTC_TREND>> = log.ctx.before
        /\ \A k \in DOMAIN AcceptedInCycle :
              LET sig == AcceptedInCycle[k]
              IN  /\ sig.direction = "LONG" =>
                        /\ BTC_RSI >= 45
                        /\ BTC_TREND = "BEARISH" => sig.score >= 90
                  /\ sig.direction = "SHORT" =>
                        /\ BTC_RSI <= 55
                        /\ BTC_TREND = "BULLISH" => sig.score >= 90

\* the refresh of the cycle failed and left the BEARISH context of the cycle
\* before; a LONG was accepted
C28_Witness ==
    /\ sc["background"].pc = "emit"
    /\ ~log.ctx.b[1]
    /\ BTC_TREND = "BEARISH"
    /\ \E k \in DOMAIN sc["background"].all :
          sc["background"].all[k].direction = "LONG"

\* the BTC context is what the refresh of the latest scan makes it
ContextRefreshed ==
    IF log.ctx.b[1]
    THEN /\ BTC_RSI = log.ctx.b[2].v
         /\ BTC_TREND = "BULLISH" <=>
               Cardinality({k \in 3..5 : log.ctx.b[k] \in BuyRecs}) >= 2
    ELSE <<BTC_RSI, BTC_TREND>> = log.ctx.before

\* C29: a cycle skipped for a dangerous hour has done its housekeeping when
\* it returns the empty list: the BTC context is refreshed, the counters are
\* reset when the cycle started in the reset window, and the cooldown map is
\* pruned.  After the pruning of any cycle every entry of the map, which has
\* one entry per symbol, is younger than DUPLICATE_COOLDOWN at the time of
\* the scan (checked under SpecNight, which crosses midnight).
C29_HousekeepingBeforeSkip ==
    LET s == sc["background"]
    IN  /\ (s.pc = "emit" /\ Hour(s.now) \in DANGEROUS_HOURS) =>
              /\ s.signals = <<>>
              /\ ContextRefreshed
              /\ (Hour(s.now) = 0 /\ Minute(s.now) < 2) =>
                    SIGNALS_TODAY = 0 /\ ACTIVE_CATEGORY_COUNT = EmptyCount
        /\ s.pc \in {"coin", "fetch", "emit"} =>
              \A k \in DOMAIN RECENT_SIGNALS :
                  s.now - RECENT_SIGNALS[k].time < DUPLICATE_COOLDOWN

\* a cycle that started in the reset window was skipped; a signal accepted
\* before midnight is still in its cooldown, and the BTC context is the one
\* fetched by the cycle
C29_Witness ==
    /\ sc["background"].pc = "emit"
    /\ Hour(sc["background"].now) = 0
    /\ Minute(sc["background"].now) < 2
    /\ RECENT_SIGNALS # NoRecent
    /\ log.ctx.b[1]
    /\ BTC_TREND = "BEARISH"

====
